---- MODULE Spec2Model ----
(***************************************************************************)
(* A model of allennlp/modules/vision/grid_embedder.py: the abstract       *)
(* GridEmbedder, the NullGridEmbedder passthrough and the ResnetBackbone   *)
(* wrapper with its lazily built backbone and its preprocess step.         *)
(*                                                                         *)
(* Tensors are records [N, C, H, W, v] (a batch) or [C, H, W, v] (one      *)
(* image); v maps index tuples (1-based) to values.  An input pixel is the *)
(* numerator k of the real value k / PixDen, so 0..PixDen covers the       *)
(* working range 0..1.  A standardized value is a rational <<num, den>> in *)
(* lowest terms.                                                           *)
(***************************************************************************)
EXTENDS Integers, Sequences, FiniteSets, TLC

VARIABLES
    _backbone,   \* ResnetBackbone._backbone: 0 is None, otherwise the id of the cached object
    builds,      \* number of build_backbone() invocations so far
    flat_parameters, \* the configuration: what as_config().build_backbone() yields for it
    castMode,    \* what this build's float -> uint8 conversion does out of range
    call,        \* the last completed call: its arguments and its outcome
    prev,        \* the earlier of two preprocess calls that are compared
    pc,          \* per thread: position inside the backbone property
    pending      \* per thread: the object its build_backbone() call returned

vars == <<_backbone, builds, flat_parameters, castMode, call, prev, pc, pending>>

----------------------------------------------------------------------------
(* Bounds of the model *)

MaxBatch == 2      \* images in a batch, entries in a sizes sequence
MaxDim == 2        \* padded height and width; sizes entries go one beyond
PixDen == 2        \* pixel values are 0/PixDen .. PixDen/PixDen
MaxDiv == 2        \* size_divisibility of a backbone is 1..MaxDiv
NumThreads == 2    \* concurrent callers in the racing specification

(* Program constants *)

NumChannels == 3   \* colour channels: length of pixel_mean / pixel_std
ScaleFactor == 256 \* (image * 256)
NullOutputDim == 3
NullStride == 1

----------------------------------------------------------------------------
(* Arithmetic helpers *)

Min(a, b) == IF a <= b THEN a ELSE b

Abs(a) == IF a < 0 THEN 0 - a ELSE a

RECURSIVE GCD(_, _)
GCD(a, b) == IF b = 0 THEN a ELSE GCD(b, a % b)

MaxOf(S) == CHOOSE m \in S : \A s \in S : s <= m

(* Real division x / y (y > 0) as a rational in lowest terms *)
Rat(n, d) == LET g == GCD(Abs(n), d) IN <<n \div g, d \div g>>

----------------------------------------------------------------------------
(* Tensors *)

Idx3(c, h, w) == (1..c) \X (1..h) \X (1..w)

Idx4(n, c, h, w) == (1..n) \X (1..c) \X (1..h) \X (1..w)

(* Variant: off by one, the slice before the one asked for *)
ImageOffByOne(images, i) ==
    LET j == IF i > 1 THEN i - 1 ELSE 1
    IN [C |-> images.C, H |-> images.H, W |-> images.W,
        v |-> [p \in Idx3(images.C, images.H, images.W) |->
                 images.v[<<j, p[1], p[2], p[3]>>]]]

(* Iterating a batch tensor yields its slices along the first dimension *)
Image(images, i) ==
    [C |-> images.C, H |-> images.H, W |-> images.W,
     v |-> [p \in Idx3(images.C, images.H, images.W) |->
                images.v[<<i, p[1], p[2], p[3]>>]]]

(* Variant: height and width taken in the wrong order *)
CropSwapped(image, height, width) ==
    LET h == Min(width, image.H)
        w == Min(height, image.W)
    IN [C |-> image.C, H |-> h, W |-> w,
        v |-> [p \in Idx3(image.C, h, w) |-> image.v[p]]]

(* Variant: the sizes entry is ignored and the padded image kept whole *)
CropWhole(image, height, width) == image

(* image[:, :height, :width]: a slice end beyond the dimension is clamped *)
Crop(image, height, width) ==
    LET h == Min(height, image.H)
        w == Min(width, image.W)
    IN [C |-> image.C, H |-> h, W |-> w,
        v |-> [p \in Idx3(image.C, h, w) |-> image.v[p]]]

(* x * 256 for x = k / PixDen, then the truncation toward zero of .byte() *)
Scale(k) == (k * ScaleFactor) \div PixDen

(* .byte(): float -> uint8.  In range the value is kept; out of range the  *)
(* conversion is undefined and the build either wraps or saturates.        *)
Byte(x, mode) ==
    IF x \in 0..255 THEN x
    ELSE IF mode = "wrap" THEN x % 256 ELSE 255

(* pixel_mean / pixel_std buffers, one entry per channel *)
pixel_mean == <<103, 116, 123>>

pixel_std == <<1, 1, 1>>

(* (image[:, :height, :width] * 256).byte() *)
RawImage(image, size, mode) ==
    LET c == Crop(image, size[1], size[2])
    IN [c EXCEPT !.v = [p \in DOMAIN c.v |-> Byte(Scale(c.v[p]), mode)]]

(* (x - self.pixel_mean) / self.pixel_std, broadcast over height and width *)
Standardize(x) ==
    [x EXCEPT !.v = [p \in DOMAIN x.v |->
                        Rat(x.v[p] - pixel_mean[p[1]], pixel_std[p[1]])]]

(* zip(images, sizes) stops at the shorter of the two *)
ZipLen(images, sizes) == Min(images.N, Len(sizes))

(* Smallest multiple of d that is >= m *)
RoundUp(m, d) == ((m + d - 1) \div d) * d

(* detectron.pack_images: one batch tensor, every image padded with zeros  *)
(* at the bottom and right to the common divisible size                    *)
PackImages(list, d) ==
    LET n == Len(list)
        c == list[1].C
        h == RoundUp(MaxOf({list[i].H : i \in 1..n}), d)
        w == RoundUp(MaxOf({list[i].W : i \in 1..n}), d)
    IN [N |-> n, C |-> c, H |-> h, W |-> w,
        v |-> [p \in Idx4(n, c, h, w) |->
                 IF p[3] <= list[p[1]].H /\ p[4] <= list[p[1]].W
                 THEN list[p[1]].v[<<p[2], p[3], p[4]>>]
                 ELSE <<0, 1>>]]

(* ResnetBackbone.preprocess, given the backbone's size_divisibility *)
Preprocess(images, sizes, d, mode) ==
    LET raw_images == [i \in 1..ZipLen(images, sizes) |->
                          RawImage(Image(images, i), sizes[i], mode)]
        standardized == [i \in 1..Len(raw_images) |-> Standardize(raw_images[i])]
    IN PackImages(standardized, d)

----------------------------------------------------------------------------
(* Inputs *)

(* A batch whose pixels vary with image, channel, row and column *)
RampBatch(n, c) ==
    [N |-> n, C |-> c, H |-> MaxDim, W |-> MaxDim,
     v |-> [p \in Idx4(n, c, MaxDim, MaxDim) |->
               (p[1] + p[2] + p[3] + 2 * p[4]) % (PixDen + 1)]]

Batches(cs) == {RampBatch(n, c) : n \in 1..MaxBatch, c \in cs}

(* (height, width) entries: up to one beyond the padded dimensions *)
SizeEntries == (1..(MaxDim + 1)) \X (1..(MaxDim + 1))

(* (height, width) entries within the padded dimensions *)
ValidEntries == (1..MaxDim) \X (1..MaxDim)

SizesOfLen(n) == [1..n -> SizeEntries]

AllSizes == UNION {SizesOfLen(n) : n \in 1..MaxBatch}

----------------------------------------------------------------------------
(* The backbone that the configuration builds *)

Names == {"res4", "res5"}

(* ShapeSpec metadata of a named feature map *)
ShapeSpec(name) ==
    IF name = "res4" THEN [channels |-> 1024, stride |-> 16]
    ELSE [channels |-> 2048, stride |-> 32]

(* A configuration fixes the backbone it builds: its size_divisibility,    *)
(* the names of the feature maps a call returns, and the names its         *)
(* output_shape() reports.                                                 *)
Configurations ==
    {[div |-> d, outs |-> o, shapes |-> s] :
        d \in 1..MaxDiv, o \in SUBSET Names, s \in SUBSET Names}

(* backbone.output_shape(): feature-map name -> ShapeSpec *)
OutputShape(cfg) == [name \in cfg.shapes |-> ShapeSpec(name)]

(* backbone(images): feature-map name -> feature tensor of that stage *)
BackboneCall(cfg, images) == [name \in cfg.outs |-> [stage |-> name, of |-> images]]

NoCall == [op |-> "none", images |-> "none", sizes |-> "none", kind |-> "none", val |-> "none"]

Returned(op, images, sizes, val) ==
    [op |-> op, images |-> images, sizes |-> sizes, kind |-> "value", val |-> val]

Raised(op, images, sizes, err) ==
    [op |-> op, images |-> images, sizes |-> sizes, kind |-> err, val |-> "none"]

Threads == 1..NumThreads

(* No ResnetBackbone instance: nothing is configured *)
NoConfig == [div |-> 0, outs |-> {}, shapes |-> {}]

(* A configuration of the shipped kind: one "res4" map, reported as such *)
Res4Configurations == {c \in Configurations : c.outs = {"res4"} /\ c.shapes = {"res4"}}

(* The state after __init__: self._backbone = None, nothing built or called *)
Fresh ==
    /\ _backbone = 0
    /\ builds = 0
    /\ call = NoCall
    /\ prev = NoCall
    /\ pc = [t \in Threads |-> [op |-> "none", at |-> "idle"]]
    /\ pending = [t \in Threads |-> [built |-> 0, got |-> 0]]

Init ==
    /\ Fresh
    /\ flat_parameters \in Configurations
    /\ castMode \in {"wrap", "saturate"}

InitRes4 ==
    /\ Fresh
    /\ flat_parameters \in Res4Configurations
    /\ castMode \in {"wrap", "saturate"}

InitNull ==
    /\ Fresh
    /\ flat_parameters = NoConfig
    /\ castMode = "none"

----------------------------------------------------------------------------
(* GridEmbedder (abstract) *)

GridEmbedderForward(inputs) ==
    /\ \E in \in inputs :
         call' = Raised("GridEmbedder.forward", in.images, in.sizes, "NotImplementedError")
    /\ UNCHANGED <<_backbone, builds, flat_parameters, castMode, prev, pc, pending>>

GridEmbedderGetOutputDim ==
    /\ call' = Raised("GridEmbedder.get_output_dim", "none", "none", "NotImplementedError")
    /\ UNCHANGED <<_backbone, builds, flat_parameters, castMode, prev, pc, pending>>

(* Variant: the abstract type supplies a default stride *)
GridEmbedderGetStrideDefault ==
    /\ call' = Returned("GridEmbedder.get_stride", "none", "none", 1)
    /\ UNCHANGED <<_backbone, builds, flat_parameters, castMode, prev, pc, pending>>


GridEmbedderGetStride ==
    /\ call' = Raised("GridEmbedder.get_stride", "none", "none", "NotImplementedError")
    /\ UNCHANGED <<_backbone, builds, flat_parameters, castMode, prev, pc, pending>>

(* NullGridEmbedder *)

(* Variant: the passthrough trims the batch to the first sizes entry *)
NullForwardCropped(images, sizes) ==
    [images EXCEPT !.H = Min(sizes[1][1], images.H), !.W = Min(sizes[1][2], images.W)]


NullForwardResult(images, sizes) == images

NullGridEmbedderForward(inputs) ==
    /\ \E in \in inputs :
         call' = Returned("NullGridEmbedder.forward", in.images, in.sizes,
                          NullForwardResult(in.images, in.sizes))
    /\ UNCHANGED <<_backbone, builds, flat_parameters, castMode, prev, pc, pending>>

NullGridEmbedderGetOutputDim ==
    /\ call' = Returned("NullGridEmbedder.get_output_dim", "none", "none", NullOutputDim)
    /\ UNCHANGED <<_backbone, builds, flat_parameters, castMode, prev, pc, pending>>

NullGridEmbedderGetStride ==
    /\ call' = Returned("NullGridEmbedder.get_stride", "none", "none", NullStride)
    /\ UNCHANGED <<_backbone, builds, flat_parameters, castMode, prev, pc, pending>>

----------------------------------------------------------------------------
(* ResnetBackbone, one caller *)

(* Variant: no cache check, every access builds *)
NeedsBuildAlways(cached) == TRUE

(* Variant: the None test inverted *)
NeedsBuildInverted(cached) == cached # 0

(* The backbone property: build on first access, then the cached object *)
NeedsBuild(cached) == cached = 0

LazyBackbone ==
    IF NeedsBuild(_backbone)
    THEN /\ builds' = builds + 1
         /\ _backbone' = builds + 1
    ELSE UNCHANGED <<_backbone, builds>>

ResnetBackboneProperty ==
    /\ LazyBackbone
    /\ call' = Returned("backbone", "none", "none", _backbone')
    /\ UNCHANGED <<flat_parameters, castMode, prev, pc, pending>>

PreprocessCall(inputs) ==
    /\ LazyBackbone
    /\ \E in \in inputs :
         call' = Returned("preprocess", in.images, in.sizes,
                          Preprocess(in.images, in.sizes, flat_parameters.div, castMode))
    /\ UNCHANGED <<flat_parameters, castMode, pc, pending>>

ResnetPreprocess(inputs) == PreprocessCall(inputs) /\ UNCHANGED prev

(* Variant: the guard only rejects an empty result *)
ForwardOutcomeLenient(images, sizes, result) ==
    IF Cardinality(DOMAIN result) >= 1
    THEN Returned("forward", images, sizes, result[CHOOSE n \in DOMAIN result : TRUE])
    ELSE Raised("forward", images, sizes, "AssertionError")

(* assert len(result) == 1; return next(iter(result.values())) *)
ForwardOutcome(images, sizes, result) ==
    IF Cardinality(DOMAIN result) = 1
    THEN Returned("forward", images, sizes, result[CHOOSE n \in DOMAIN result : TRUE])
    ELSE Raised("forward", images, sizes, "AssertionError")

ResnetForward(inputs) ==
    /\ LazyBackbone
    /\ \E in \in inputs :
         LET packed == Preprocess(in.images, in.sizes, flat_parameters.div, castMode)
             result == BackboneCall(flat_parameters, packed)
         IN call' = ForwardOutcome(in.images, in.sizes, result)
    /\ UNCHANGED <<flat_parameters, castMode, prev, pc, pending>>

(* self.backbone.output_shape()["res4"] *)
MetadataName == "res4"

ShapeLookup(op, shapes, field) ==
    IF MetadataName \in DOMAIN shapes
    THEN Returned(op, "none", "none", shapes[MetadataName][field])
    ELSE Raised(op, "none", "none", "KeyError")

ResnetGetOutputDim ==
    /\ LazyBackbone
    /\ call' = ShapeLookup("get_output_dim", OutputShape(flat_parameters), "channels")
    /\ UNCHANGED <<flat_parameters, castMode, prev, pc, pending>>

ResnetGetStride ==
    /\ LazyBackbone
    /\ call' = ShapeLookup("get_stride", OutputShape(flat_parameters), "stride")
    /\ UNCHANGED <<flat_parameters, castMode, prev, pc, pending>>

----------------------------------------------------------------------------
(* ResnetBackbone, several callers: the backbone property step by step.    *)
(* A caller enters through any of the five entry points; what it does      *)
(* after the property returns does not touch _backbone.                    *)

EntryPoints == {"backbone", "preprocess", "forward", "get_output_dim", "get_stride"}

(* if self._backbone is None: *)
RaceCheck(t) ==
    /\ pc[t].at = "idle"
    /\ \E op \in EntryPoints :
         pc' = [pc EXCEPT ![t] = [op |-> op,
                                  at |-> IF NeedsBuild(_backbone) THEN "build" ELSE "return"]]
    /\ UNCHANGED <<_backbone, builds, flat_parameters, castMode, call, prev, pending>>

(* self.flat_parameters.as_config().build_backbone() *)
RaceBuild(t) ==
    /\ pc[t].at = "build"
    /\ builds' = builds + 1
    /\ pending' = [pending EXCEPT ![t].built = builds + 1]
    /\ pc' = [pc EXCEPT ![t].at = "assign"]
    /\ UNCHANGED <<_backbone, flat_parameters, castMode, call, prev>>

(* self._backbone = ... *)
RaceAssign(t) ==
    /\ pc[t].at = "assign"
    /\ _backbone' = pending[t].built
    /\ pc' = [pc EXCEPT ![t].at = "return"]
    /\ UNCHANGED <<builds, flat_parameters, castMode, call, prev, pending>>

(* return self._backbone *)
RaceReturn(t) ==
    /\ pc[t].at = "return"
    /\ pending' = [pending EXCEPT ![t].got = _backbone]
    /\ pc' = [pc EXCEPT ![t].at = "done"]
    /\ UNCHANGED <<_backbone, builds, flat_parameters, castMode, call, prev>>

----------------------------------------------------------------------------
(* Input sets of the specifications *)

Inputs(batches, sizes) == {[images |-> b, sizes |-> z] : b \in batches, z \in sizes}

(* Well-formed inputs: one full-size entry per image *)
FullSizes(images) == [i \in 1..images.N |-> <<images.H, images.W>>]

LifeInputs == {[images |-> b, sizes |-> FullSizes(b)] : b \in Batches({NumChannels})}

PreInputs == Inputs(Batches({NumChannels}), AllSizes)

NullInputs == Inputs(Batches(1..NumChannels), SizesOfLen(1))

(* One entry per image, each within the padded dimensions *)
PadInputs ==
    UNION {Inputs({b}, [1..b.N -> ValidEntries]) : b \in Batches({NumChannels})}

(* The same batch with one pixel of the first channel changed *)
Repainted(images) ==
    {[images EXCEPT !.v[p] = (images.v[p] + 1) % (PixDen + 1)] :
        p \in {q \in DOMAIN images.v : q[2] = 1}}

(* One ResnetBackbone instance used by a single caller *)
Next ==
    \/ ResnetGetOutputDim
    \/ ResnetGetStride
    \/ ResnetBackboneProperty
    \/ ResnetPreprocess(LifeInputs)
    \/ ResnetForward(LifeInputs)

Spec == Init /\ [][Next]_vars

(* The first preprocess call on a fresh instance, over all batches and sizes *)
FirstCall == call.op = "none"

NextPre == FirstCall /\ ResnetPreprocess(PreInputs)

SpecPre == InitRes4 /\ [][NextPre]_vars

(* Two preprocess calls with the same sizes on batches that differ in one pixel *)
PadFirst == FirstCall /\ ResnetPreprocess(PadInputs)

PadSecond ==
    /\ call.op = "preprocess"
    /\ prev.op = "none"
    /\ PreprocessCall(Inputs(Repainted(call.images), {call.sizes}))
    /\ prev' = call

NextPad == PadFirst \/ PadSecond

SpecPad == InitRes4 /\ [][NextPad]_vars

(* The abstract type and the passthrough *)
NextNull ==
    \/ GridEmbedderForward(NullInputs)
    \/ GridEmbedderGetOutputDim
    \/ GridEmbedderGetStride
    \/ NullGridEmbedderForward(NullInputs)
    \/ NullGridEmbedderGetOutputDim
    \/ NullGridEmbedderGetStride

SpecNull == InitNull /\ [][NextNull]_vars

(* One ResnetBackbone instance entered by several threads at once *)
NextRace ==
    \E t \in Threads : RaceCheck(t) \/ RaceBuild(t) \/ RaceAssign(t) \/ RaceReturn(t)

SpecRace == InitRes4 /\ [][NextRace]_vars

----------------------------------------------------------------------------
(* Properties *)

ResnetOps == {"backbone", "preprocess", "forward", "get_output_dim", "get_stride"}

(* x is the smallest multiple of d that is >= m *)
IsSmallestMultiple(x, d, m) == x % d = 0 /\ x >= m /\ x - d < m

(* The standardized value preprocess gives input pixel k of channel c *)
StandardizedPixel(k, c) == Rat(Byte(Scale(k), castMode) - pixel_mean[c], pixel_std[c])

(* Height and width of the crop preprocess takes of image i *)
CropH(c, i) == Min(c.sizes[i][1], c.images.H)

CropW(c, i) == Min(c.sizes[i][2], c.images.W)

(* C1: with a single caller nothing is built after __init__, exactly one   *)
(* backbone has been built after any call of backbone / preprocess /      *)
(* forward / get_output_dim / get_stride, a built instance never goes     *)
(* back to unbuilt, and every access yields the same cached object.       *)
C1_BuiltExactlyOnce ==
    /\ [](/\ call.op = "none" => (builds = 0 /\ _backbone = 0)
          /\ call.op \in ResnetOps => (builds = 1 /\ _backbone = 1)
          /\ call.op = "backbone" => call.val = _backbone)
    /\ [][_backbone # 0 => (_backbone' = _backbone /\ builds' = builds)]_vars

C1_Witness == builds = 1 /\ _backbone = 1 /\ call.op = "forward" /\ call.kind = "value"

(* C2: when the backbone's call returns exactly one feature map, named n, *)
(* get_output_dim() and get_stride() return the channels and the stride   *)
(* that output_shape() reports for n.                                     *)
ExtractedName(n) == flat_parameters.outs = {n} /\ n \in flat_parameters.shapes

C2_MetadataOfExtractedMap ==
    /\ \A n \in Names :
         (ExtractedName(n) /\ call.op = "get_output_dim") =>
             (call.kind = "value" /\ call.val = OutputShape(flat_parameters)[n].channels)
    /\ \A n \in Names :
         (ExtractedName(n) /\ call.op = "get_stride") =>
             (call.kind = "value" /\ call.val = OutputShape(flat_parameters)[n].stride)

(* C3: forward raises an assertion error and returns nothing when the     *)
(* backbone's output mapping holds zero or several feature maps, and      *)
(* returns the one tensor of the mapping when it holds exactly one.       *)
C3_ForwardAssertsSingleOutput ==
    call.op = "forward" =>
        IF Cardinality(flat_parameters.outs) = 1
        THEN /\ call.kind = "value"
             /\ call.val.stage \in flat_parameters.outs
             /\ call.val.of = Preprocess(call.images, call.sizes,
                                         flat_parameters.div, castMode)
        ELSE call.kind = "AssertionError" /\ call.val = "none"

C3_Witness ==
    call.op = "forward" /\ call.kind = "AssertionError" /\ flat_parameters.outs = Names

(* C4 as stated: the packed height (width) is the smallest multiple of    *)
(* size_divisibility that is >= the largest height (width) in sizes.      *)
C4_DimsFromSizes ==
    call.op = "preprocess" =>
        /\ IsSmallestMultiple(call.val.H, flat_parameters.div,
              MaxOf({call.sizes[i][1] : i \in 1..Len(call.sizes)}))
        /\ IsSmallestMultiple(call.val.W, flat_parameters.div,
              MaxOf({call.sizes[i][2] : i \in 1..Len(call.sizes)}))

(* C4 amended: the packed height (width) is the smallest multiple of      *)
(* size_divisibility that is >= the largest height (width) among the      *)
(* crops taken: the sizes entries that are paired with an image, each     *)
(* clamped to the padded input dimension.                                 *)
C4_DimsFromCrops ==
    call.op = "preprocess" =>
        LET n == Min(call.images.N, Len(call.sizes))
        IN /\ IsSmallestMultiple(call.val.H, flat_parameters.div,
                 MaxOf({CropH(call, i) : i \in 1..n}))
           /\ IsSmallestMultiple(call.val.W, flat_parameters.div,
                 MaxOf({CropW(call, i) : i \in 1..n}))

C4_Witness ==
    /\ call.op = "preprocess"
    /\ flat_parameters.div = 2
    /\ Len(call.sizes) > call.images.N
    /\ \E i \in 1..call.images.N : call.sizes[i][1] > call.images.H
    /\ call.val.W > MaxOf({CropW(call, i) : i \in 1..call.images.N})

(* Two batches agree on every image's valid region *)
AgreeOnValid(a, b, sizes) ==
    \A p \in DOMAIN a.v :
        (p[3] <= sizes[p[1]][1] /\ p[4] <= sizes[p[1]][2]) => a.v[p] = b.v[p]

(* C5: two batches with the same sizes that agree on every valid region   *)
(* give identical packed outputs; inside an image's valid region the      *)
(* output holds the standardized input pixel at the same row and column,  *)
(* and every cell outside it is zero.                                     *)
C5_PaddingInsensitive ==
    (call.op = "preprocess" /\ prev.op = "preprocess") =>
        /\ AgreeOnValid(prev.images, call.images, call.sizes) => call.val = prev.val
        /\ \A p \in DOMAIN call.val.v :
             call.val.v[p] =
                IF p[3] <= CropH(call, p[1]) /\ p[4] <= CropW(call, p[1])
                THEN StandardizedPixel(call.images.v[p], p[2])
                ELSE <<0, 1>>

C5_Witness ==
    /\ call.op = "preprocess"
    /\ prev.op = "preprocess"
    /\ call.images # prev.images
    /\ AgreeOnValid(prev.images, call.images, call.sizes)
    /\ call.images.N = 2
    /\ call.sizes[1] # call.sizes[2]

(* C6: every pixel value in 0..1 is rescaled into 0..255 before the       *)
(* conversion to 8 bits, so the conversion neither overflows nor wraps,   *)
(* and 1 maps to 255.                                                     *)
C6_RescaledInto8Bits ==
    call.op = "preprocess" =>
        \A i \in 1..call.val.N : \A p \in Idx3(call.images.C, CropH(call, i), CropW(call, i)) :
            LET k == call.images.v[<<i, p[1], p[2], p[3]>>]
                out == call.val.v[<<i, p[1], p[2], p[3]>>]
            IN /\ Scale(k) \in 0..255
               /\ out = Rat(Scale(k) - pixel_mean[p[1]], pixel_std[p[1]])
               /\ k = PixDen => out = Rat(255 - pixel_mean[p[1]], pixel_std[p[1]])

C8_AbstractRaises ==
    call.op \in {"GridEmbedder.forward", "GridEmbedder.get_output_dim",
                 "GridEmbedder.get_stride"} =>
        (call.kind = "NotImplementedError" /\ call.val = "none")

C8_Witness == call.op = "GridEmbedder.get_stride" /\ call.kind = "NotImplementedError"

AllDone == \A t \in Threads : pc[t].at = "done"

(* C9: racing callers can build more than once (at most once each), and   *)
(* when all of them have returned the instance is built: it caches one of *)
(* the built objects, and each caller got a built object.                 *)
C9_RaceEndsBuilt ==
    /\ builds <= NumThreads
    /\ AllDone => (/\ _backbone \in 1..builds
                   /\ \A t \in Threads : pending[t].got \in 1..builds)

C9_Witness == AllDone /\ builds = 2 /\ _backbone \in 1..2

(* C10: preprocess pairs images and sizes by position and raises nothing  *)
(* when their lengths differ: the output holds min(#images, #sizes)       *)
(* images, image i being input image i cropped by sizes entry i, so the   *)
(* batch size is kept just when sizes has an entry for every image.       *)
C10_PairsByPosition ==
    call.op = "preprocess" =>
        /\ call.kind = "value"
        /\ call.val.N = Min(call.images.N, Len(call.sizes))
        /\ (call.val.N = call.images.N) <=> (Len(call.sizes) >= call.images.N)
        /\ \A i \in 1..call.val.N :
             \A p \in Idx3(call.images.C, CropH(call, i), CropW(call, i)) :
                call.val.v[<<i, p[1], p[2], p[3]>>] =
                    StandardizedPixel(call.images.v[<<i, p[1], p[2], p[3]>>], p[1])

C10_Witness ==
    /\ call.op = "preprocess"
    /\ call.images.N = 2
    /\ Len(call.sizes) = 1
    /\ call.val.N = 1

====
